---- MODULE Spec2Model ----
(***************************************************************************)
(* ST7735 SPI display driver (src/src/lib.rs).                             *)
(*                                                                         *)
(* The driver is single-threaded and blocking: every public method runs to *)
(* its return.  One action models one call of a method; the effects of the *)
(* call on the collaborators (bus, mode-select pin dc, reset pin rst,      *)
(* delay provider) are recorded, in order, in log.  The bus is an external *)
(* collaborator whose write may fail: each call takes as input the ordinal *)
(* of the bus write that fails (0: none fails).                            *)
(***************************************************************************)
EXTENDS Integers, Sequences, FiniteSets, TLC

VARIABLES
    rgb,        \* ST7735.rgb
    inverted,   \* ST7735.inverted
    dx,         \* ST7735.dx
    dy,         \* ST7735.dy
    width,      \* ST7735.width
    height,     \* ST7735.height
    dc,         \* level of the data/command (mode-select) pin
    rst,        \* level of the reset pin
    op,         \* the last call: [name, args]
    result,     \* how the last call ended: "ok", "bus" (Err(())), "panic"
    log,        \* the collaborator events of the last call, in order
    prev        \* the call before the last one: [name, result]

vars == <<rgb, inverted, dx, dy, width, height, dc, rst, op, result, log, prev>>

----------------------------------------------------------------------------
(* Bounds of the model.                                                    *)

\* Longest colour sequence given to a pixel-streaming call.
MaxPixels == 33
\* Largest ordinal of a failing bus write (0 means that no write fails).
MaxFail == 35
\* Largest panel width and height chosen at construction.
MaxWidth == 5
MaxHeight == 4
\* Longest pixel list given to draw_iter.
MaxDrawn == 2

----------------------------------------------------------------------------
(* Pin levels and integer widths.                                          *)

Low == 0
High == 1
U8 == 256
U16 == 65536

\* Bitwise OR of two bytes (the `|` of set_orientation).
RECURSIVE BitOr(_, _, _)
BitOr(a, b, n) ==
    IF n = 0 THEN 0
    ELSE (IF a % 2 = 1 \/ b % 2 = 1 THEN 1 ELSE 0)
         + 2 * BitOr(a \div 2, b \div 2, n - 1)

\* u16::to_be_bytes: high byte first.
to_be_bytes(value) == <<value \div U8, value % U8>>

----------------------------------------------------------------------------
(* Instruction: the opcode bytes (module instruction, ST7735 datasheet).   *)

SWRESET == 1
SLPOUT == 17
INVOFF == 32
INVON == 33
DISPON == 41
CASET == 42
RASET == 43
RAMWR == 44
MADCTL == 54
COLMOD == 58
FRMCTR1 == 177
FRMCTR2 == 178
FRMCTR3 == 179
INVCTR == 180
PWCTR1 == 192
PWCTR2 == 193
PWCTR3 == 194
PWCTR4 == 195
PWCTR5 == 196
VMCTR1 == 197

(* Orientation: the enum's discriminants.                                  *)
Portrait == 0
Landscape == 96
PortraitSwapped == 192
LandscapeSwapped == 160
Orientation == {Portrait, Landscape, PortraitSwapped, LandscapeSwapped}

----------------------------------------------------------------------------
(* The collaborators.  A call threads a record h through its statements:   *)
(*   dc, rst   the pin levels,                                             *)
(*   log       the events so far,                                          *)
(*   err       "none", or why the call has stopped: "bus" (a write failed  *)
(*             and `?` returned the error) or "panic",                     *)
(*   nw        the number of bus writes attempted so far,                  *)
(*   failAt    the ordinal of the write that fails.                        *)
(* Once err is set the rest of the call does not run: every primitive is   *)
(* the identity on a stopped h.                                            *)

Ev(e, v, b, k) == [ev |-> e, val |-> v, bytes |-> b, ok |-> k]

\* OutputPin::set_low / set_high on dc.
dc_set(h, level) ==
    IF h.err # "none" THEN h
    ELSE [h EXCEPT !.dc = level, !.log = Append(@, Ev("dc", level, <<>>, TRUE))]

\* OutputPin::set_low / set_high on rst.
rst_set(h, level) ==
    IF h.err # "none" THEN h
    ELSE [h EXCEPT !.rst = level, !.log = Append(@, Ev("rst", level, <<>>, TRUE))]

\* DelayMs::delay_ms.
delay_ms(h, ms) ==
    IF h.err # "none" THEN h
    ELSE [h EXCEPT !.log = Append(@, Ev("delay", ms, <<>>, TRUE))]

\* Spi::write(..).map_err(|_| ()): the event keeps the level of dc during
\* the write and whether the write succeeded.
spi_write(h, bytes) ==
    IF h.err # "none" THEN h
    ELSE LET fails == (h.nw + 1 = h.failAt)
         IN [h EXCEPT !.nw = @ + 1,
                      !.log = Append(@, Ev("write", h.dc, bytes, ~fails)),
                      !.err = IF fails THEN "bus" ELSE "none"]

----------------------------------------------------------------------------
(* The private helpers of ST7735.                                          *)

\* Mutant of start_data: dc is left as it is.
start_data_keeps_dc(h) == h

start_data(h) == dc_set(h, High)

\* Mutant of write_data: the Result of the bus write is dropped.
write_data_ignore_error(h, data) ==
    IF h.err # "none" THEN h ELSE [spi_write(h, data) EXCEPT !.err = "none"]

write_data(h, data) == spi_write(h, data)

\* Mutant of write_command: the parameters are written without start_data.
write_command_no_start_data(h, command, params) ==
    LET h1 == dc_set(h, Low)
        h2 == spi_write(h1, <<command>>)
    IN IF params # <<>> THEN write_data(h2, params) ELSE h2

\* Mutant of write_command: dc is set to data whenever the call fails.
write_command_data_on_failure(h, command, params) ==
    LET h1 == dc_set(h, Low)
        h2 == spi_write(h1, <<command>>)
        h3 == IF params # <<>> THEN write_data(start_data(h2), params) ELSE h2
    IN IF h3.err = "bus" THEN [h3 EXCEPT !.dc = High] ELSE h3

write_command(h, command, params) ==
    LET h1 == dc_set(h, Low)
        h2 == spi_write(h1, <<command>>)
    IN IF params # <<>> THEN write_data(start_data(h2), params) ELSE h2

write_word(h, value) == write_data(h, to_be_bytes(value))

\* Mutant of write_word_sum: the sum is formed in 8 bits.
write_word_sum_u8(h, a, b) ==
    IF h.err # "none" THEN h ELSE write_word(h, (a + b) % U8)

\* `self.write_word(a + b)?` where a + b is a u16 addition: with overflow
\* checks (debug builds) an overflowing sum panics before anything is
\* written; without them (release builds) the sum wraps modulo 2^16.
write_word_sum(h, a, b) ==
    IF h.err # "none" THEN h
    ELSE IF a + b >= U16 /\ h.checked THEN [h EXCEPT !.err = "panic"]
    ELSE write_word(h, (a + b) % U16)

\* The 32-byte buffer of write_words_buffered.
BufferLen == 32

\* Mutant of buffered_step: the buffer is flushed one pixel early.
buffered_step_early_flush(s, word) ==
    IF s.h.err # "none" THEN s
    ELSE LET as_bytes == to_be_bytes(word)
             buffer == [s.buffer EXCEPT ![s.index + 1] = as_bytes[1],
                                        ![s.index + 2] = as_bytes[2]]
             index == s.index + 2
         IN IF index >= BufferLen - 2
            THEN [buffer |-> buffer, index |-> 0, h |-> write_data(s.h, buffer)]
            ELSE [buffer |-> buffer, index |-> index, h |-> s.h]

\* One iteration of the `for word in words` loop of write_words_buffered on
\* s = [buffer, index, h] (buffer is indexed from 1 here, from 0 in Rust).
buffered_step(s, word) ==
    IF s.h.err # "none" THEN s
    ELSE LET as_bytes == to_be_bytes(word)
             buffer == [s.buffer EXCEPT ![s.index + 1] = as_bytes[1],
                                        ![s.index + 2] = as_bytes[2]]
             index == s.index + 2
         IN IF index >= BufferLen
            THEN [buffer |-> buffer, index |-> 0, h |-> write_data(s.h, buffer)]
            ELSE [buffer |-> buffer, index |-> index, h |-> s.h]

RECURSIVE buffered_loop(_, _)
buffered_loop(s, words) ==
    IF words = <<>> THEN s
    ELSE LET s1 == buffered_step(s, Head(words))
         IN IF s1.h.err # "none" THEN s1 ELSE buffered_loop(s1, Tail(words))

\* Mutant of buffered_flush: nothing is written when the buffer is empty.
buffered_flush_skip_empty(s) ==
    IF s.index = 0 THEN s.h ELSE write_data(s.h, SubSeq(s.buffer, 1, s.index))

\* Mutant of buffered_flush: the whole buffer is written, stale bytes too.
buffered_flush_whole_buffer(s) == write_data(s.h, s.buffer)

\* The flush after the loop: write_data(&buffer[0..index]).
buffered_flush(s) == write_data(s.h, SubSeq(s.buffer, 1, s.index))

\* [0; n]: n zero bytes.
RECURSIVE zeroed(_)
zeroed(n) == IF n = 0 THEN <<>> ELSE Append(zeroed(n - 1), 0)

write_words_buffered(h, words) ==
    buffered_flush(
        buffered_loop([buffer |-> zeroed(BufferLen), index |-> 0, h |-> h],
                      words))

----------------------------------------------------------------------------
(* The public methods of ST7735, as functions of the collaborators' state. *)

\* Mutant of hard_reset: the wait after reset-low is missing.
hard_reset_no_second_wait(h) ==
    rst_set(rst_set(delay_ms(rst_set(h, High), 10), Low), High)

hard_reset(h) ==
    rst_set(delay_ms(rst_set(delay_ms(rst_set(h, High), 10), Low), 10), High)

\* Mutant of init_steps: the MADCTL parameter ignores the rgb flag.
init_steps_madctl_fixed(inv, isRgb) ==
    << <<SWRESET, <<>>, 200>>,
       <<SLPOUT, <<>>, 200>>,
       <<FRMCTR1, <<1, 44, 45>>, 0>>,
       <<FRMCTR2, <<1, 44, 45>>, 0>>,
       <<FRMCTR3, <<1, 44, 45, 1, 44, 45>>, 0>>,
       <<INVCTR, <<7>>, 0>>,
       <<PWCTR1, <<162, 2, 132>>, 0>>,
       <<PWCTR2, <<197>>, 0>>,
       <<PWCTR3, <<10, 0>>, 0>>,
       <<PWCTR4, <<138, 42>>, 0>>,
       <<PWCTR5, <<138, 238>>, 0>>,
       <<VMCTR1, <<14>>, 0>>,
       <<IF inv THEN INVON ELSE INVOFF, <<>>, 0>>,
       <<MADCTL, <<0>>, 0>>,
       <<COLMOD, <<5>>, 0>>,
       <<DISPON, <<>>, 200>> >>

\* The commands of init after the hard reset, in order: opcode, parameters,
\* and the delay_ms that follows the command (0: none).
init_steps(inv, isRgb) ==
    << <<SWRESET, <<>>, 200>>,
       <<SLPOUT, <<>>, 200>>,
       <<FRMCTR1, <<1, 44, 45>>, 0>>,
       <<FRMCTR2, <<1, 44, 45>>, 0>>,
       <<FRMCTR3, <<1, 44, 45, 1, 44, 45>>, 0>>,
       <<INVCTR, <<7>>, 0>>,
       <<PWCTR1, <<162, 2, 132>>, 0>>,
       <<PWCTR2, <<197>>, 0>>,
       <<PWCTR3, <<10, 0>>, 0>>,
       <<PWCTR4, <<138, 42>>, 0>>,
       <<PWCTR5, <<138, 238>>, 0>>,
       <<VMCTR1, <<14>>, 0>>,
       <<IF inv THEN INVON ELSE INVOFF, <<>>, 0>>,
       <<MADCTL, IF isRgb THEN <<0>> ELSE <<8>>, 0>>,
       <<COLMOD, <<5>>, 0>>,
       <<DISPON, <<>>, 200>> >>

\* Mutant of init_step: the error of write_command is dropped (no `?`).
init_step_ignore_error(h, step) ==
    LET h1 == [write_command(h, step[1], step[2]) EXCEPT !.err = "none"]
    IN IF step[3] > 0 THEN delay_ms(h1, step[3]) ELSE h1

\* One `self.write_command(..)?;` of init with the delay that follows it.
init_step(h, step) ==
    LET h1 == write_command(h, step[1], step[2])
    IN IF step[3] > 0 THEN delay_ms(h1, step[3]) ELSE h1

RECURSIVE run_steps(_, _)
run_steps(h, steps) ==
    IF steps = <<>> THEN h
    ELSE LET h1 == init_step(h, Head(steps))
         IN IF h1.err # "none" THEN h1 ELSE run_steps(h1, Tail(steps))

init(h, inv, isRgb) == run_steps(hard_reset(h), init_steps(inv, isRgb))

\* Mutant of set_orientation: the hard reset of init is run first.
set_orientation_with_reset(h, orientation, isRgb) ==
    IF isRgb THEN write_command(hard_reset(h), MADCTL, <<orientation>>)
    ELSE write_command(hard_reset(h), MADCTL, <<BitOr(orientation, 8, 8)>>)

\* Mutant of set_orientation: the BGR bit is set for RGB wiring instead.
set_orientation_swapped(h, orientation, isRgb) ==
    IF ~isRgb THEN write_command(h, MADCTL, <<orientation>>)
    ELSE write_command(h, MADCTL, <<BitOr(orientation, 8, 8)>>)

set_orientation(h, orientation, isRgb) ==
    IF isRgb THEN write_command(h, MADCTL, <<orientation>>)
    ELSE write_command(h, MADCTL, <<BitOr(orientation, 8, 8)>>)

\* Mutant of set_address_window: the rows are offset by dx.
set_address_window_rows_by_dx(h, sx, sy, ex, ey, ox, oy) ==
    LET h1 == start_data(write_command(h, CASET, <<>>))
        h2 == write_word_sum(write_word_sum(h1, sx, ox), ex, ox)
        h3 == start_data(write_command(h2, RASET, <<>>))
    IN write_word_sum(write_word_sum(h3, sy, ox), ey, ox)

\* Mutant of set_offset: the two offsets are stored crosswise.
set_offset_crosswise(ox, oy) == [dx |-> oy, dy |-> ox]

\* set_offset: the new values of self.dx and self.dy.
set_offset(ox, oy) == [dx |-> ox, dy |-> oy]

set_address_window(h, sx, sy, ex, ey, ox, oy) ==
    LET h1 == start_data(write_command(h, CASET, <<>>))
        h2 == write_word_sum(write_word_sum(h1, sx, ox), ex, ox)
        h3 == start_data(write_command(h2, RASET, <<>>))
    IN write_word_sum(write_word_sum(h3, sy, oy), ey, oy)

RECURSIVE write_each_word(_, _)
\* The `for color in colors { self.write_word(color)?; }` of write_pixels.
write_each_word(h, colors) ==
    IF colors = <<>> THEN h
    ELSE LET h1 == write_word(h, Head(colors))
         IN IF h1.err # "none" THEN h1 ELSE write_each_word(h1, Tail(colors))

write_pixels(h, colors) ==
    write_each_word(start_data(write_command(h, RAMWR, <<>>)), colors)

write_pixels_buffered(h, colors) ==
    write_words_buffered(start_data(write_command(h, RAMWR, <<>>)), colors)

\* Mutant of set_pixel: the colour word is written before the RAMWR opcode.
set_pixel_data_before_ramwr(h, x, y, color, ox, oy) ==
    write_command(
        write_word(start_data(set_address_window(h, x, y, x, y, ox, oy)), color),
        RAMWR, <<>>)

set_pixel(h, x, y, color, ox, oy) ==
    write_word(
        start_data(write_command(set_address_window(h, x, y, x, y, ox, oy), RAMWR, <<>>)),
        color)

set_pixels(h, sx, sy, ex, ey, colors, ox, oy) ==
    write_pixels(set_address_window(h, sx, sy, ex, ey, ox, oy), colors)

set_pixels_buffered(h, sx, sy, ex, ey, colors, ox, oy) ==
    write_pixels_buffered(set_address_window(h, sx, sy, ex, ey, ox, oy), colors)

----------------------------------------------------------------------------
(* The DrawTarget implementation (feature "graphics").  A Bgr565 colour is *)
(* given by its 16-bit storage, the word RawU16::from(color).into_inner()  *)
(* returns.  Point coordinates are i32, sizes are u32; the model keeps     *)
(* them far below 2^31, where `u32 as i32` changes nothing.                *)

\* `v as u16` of an i32 or u32: the low 16 bits.
as_u16(v) == v % U16

\* embedded_graphics::primitives::Rectangle: top_left (x, y), size (w, h).
Rectangle(x, y, w, ht) == [x |-> x, y |-> y, w |-> w, h |-> ht]

\* Rectangle::zero().
ZeroRectangle == Rectangle(0, 0, 0, 0)

\* Rectangle::is_zero_sized; bottom_right() is None exactly then.
is_zero_sized(r) == r.w = 0 \/ r.h = 0

\* Rectangle::contains: no point is in a zero sized rectangle.
contains(r, px, py) ==
    /\ px >= r.x
    /\ py >= r.y
    /\ ~is_zero_sized(r)
    /\ px <= r.x + r.w - 1
    /\ py <= r.y + r.h - 1

\* The overlap test of two inclusive ranges in Rectangle::intersection.
overlaps(a1, a2, b1, b2) ==
    \/ (b1 <= a1 /\ a1 <= b2)
    \/ (b1 <= a2 /\ a2 <= b2)
    \/ (a1 < b1 /\ a2 > b2)

Max(a, b) == IF a >= b THEN a ELSE b
Min(a, b) == IF a <= b THEN a ELSE b

\* Rectangle::intersection: the common part of two rectangles; a zero sized
\* rectangle whose corner lies in the other one is returned as it is; with
\* no common part, Rectangle::zero().
intersection(self, other) ==
    IF ~is_zero_sized(other) /\ ~is_zero_sized(self)
    THEN IF /\ overlaps(self.x, self.x + self.w - 1, other.x, other.x + other.w - 1)
            /\ overlaps(self.y, self.y + self.h - 1, other.y, other.y + other.h - 1)
         THEN LET left == Max(self.x, other.x)
                  top == Max(self.y, other.y)
                  right == Min(self.x + self.w - 1, other.x + other.w - 1)
                  bottom == Min(self.y + self.h - 1, other.y + other.h - 1)
              IN Rectangle(left, top, right - left + 1, bottom - top + 1)
         ELSE ZeroRectangle
    ELSE IF ~is_zero_sized(other) /\ is_zero_sized(self)
    THEN IF contains(other, self.x, self.y) THEN self ELSE ZeroRectangle
    ELSE IF is_zero_sized(other) /\ ~is_zero_sized(self)
    THEN IF contains(self, other.x, other.y) THEN other ELSE ZeroRectangle
    ELSE ZeroRectangle

\* Rectangle::points: row by row from the top, each row from the left.
points(r) ==
    [i \in 1..(r.w * r.h) |-> <<r.x + ((i - 1) % r.w), r.y + ((i - 1) \div r.w)>>]

\* Mutant of zip_filter: the colours of clipped points are kept.
RECURSIVE zip_filter_no_clip(_, _, _)
zip_filter_no_clip(drawable_area, pts, colors) ==
    IF pts = <<>> \/ colors = <<>> THEN <<>>
    ELSE <<Head(colors)>> \o zip_filter_no_clip(drawable_area, Tail(pts), Tail(colors))

\* area.points().zip(colors).filter(|(pos, _)| drawable_area.contains(*pos))
\*     .map(|(_, color)| RawU16::from(color).into_inner())
RECURSIVE zip_filter(_, _, _)
zip_filter(drawable_area, pts, colors) ==
    IF pts = <<>> \/ colors = <<>> THEN <<>>
    ELSE (IF contains(drawable_area, Head(pts)[1], Head(pts)[2])
          THEN <<Head(colors)>> ELSE <<>>)
         \o zip_filter(drawable_area, Tail(pts), Tail(colors))

\* `(size - 1) as i32` of a u32 size: 0 - 1 panics with overflow checks and
\* wraps to u32::MAX, which is -1 as i32, without them.
size_minus_one(n) == IF n = 0 THEN -1 ELSE n - 1

\* `self.width as u16 - 1`: a u16 subtraction, which wraps 0 - 1 to 65535.
u16_minus_one(n) == (as_u16(n) - 1) % U16

\* Mutant of draw_iter: the bounds test accepts x = width and y = height.
RECURSIVE draw_iter_inclusive(_, _, _, _, _, _)
draw_iter_inclusive(h, pixels, w, ht, ox, oy) ==
    IF pixels = <<>> THEN h
    ELSE LET p == Head(pixels)
             h1 == IF p[1] >= 0 /\ p[2] >= 0 /\ p[1] <= w /\ p[2] <= ht
                   THEN set_pixel(h, as_u16(p[1]), as_u16(p[2]), p[3], ox, oy)
                   ELSE h
         IN IF h1.err # "none" THEN h1
            ELSE draw_iter_inclusive(h1, Tail(pixels), w, ht, ox, oy)

\* draw_iter: pixels are <<x, y, color>>.
RECURSIVE draw_iter(_, _, _, _, _, _)
draw_iter(h, pixels, w, ht, ox, oy) ==
    IF pixels = <<>> THEN h
    ELSE LET p == Head(pixels)
             h1 == IF p[1] >= 0 /\ p[2] >= 0 /\ p[1] < w /\ p[2] < ht
                   THEN set_pixel(h, as_u16(p[1]), as_u16(p[2]), p[3], ox, oy)
                   ELSE h
         IN IF h1.err # "none" THEN h1 ELSE draw_iter(h1, Tail(pixels), w, ht, ox, oy)

fill_contiguous(h, area, colors, w, ht, ox, oy) ==
    LET drawable_area == intersection(area, Rectangle(0, 0, w, ht))
    IN IF drawable_area.w = 0 /\ drawable_area.h = 0 THEN h
       ELSE IF is_zero_sized(drawable_area) /\ h.checked
       THEN [h EXCEPT !.err = "panic"]
       ELSE set_pixels_buffered(
                h,
                as_u16(drawable_area.x),
                as_u16(drawable_area.y),
                as_u16(drawable_area.x + size_minus_one(drawable_area.w)),
                as_u16(drawable_area.y + size_minus_one(drawable_area.h)),
                zip_filter(drawable_area, points(area), colors),
                ox, oy)

\* Mutant of clear: one repetition of the colour is missing.
clear_one_short(h, color, w, ht, ox, oy) ==
    IF (as_u16(w) = 0 \/ as_u16(ht) = 0) /\ h.checked
    THEN [h EXCEPT !.err = "panic"]
    ELSE set_pixels_buffered(h, 0, 0, u16_minus_one(w), u16_minus_one(ht),
                             [i \in 1..(w * ht - 1) |-> color], ox, oy)

clear(h, color, w, ht, ox, oy) ==
    IF (as_u16(w) = 0 \/ as_u16(ht) = 0) /\ h.checked
    THEN [h EXCEPT !.err = "panic"]
    ELSE set_pixels_buffered(h, 0, 0, u16_minus_one(w), u16_minus_one(ht),
                             [i \in 1..(w * ht) |-> color], ox, oy)

----------------------------------------------------------------------------
(* Construction and calls.                                                 *)

Levels == {Low, High}

\* ST7735::new: the flags and the panel size are the caller's, the offset is
\* (0, 0); the pins come from the caller at whatever level they have.
new(r, i, w, ht, dc0, rst0) ==
    /\ rgb = r
    /\ inverted = i
    /\ dx = 0
    /\ dy = 0
    /\ width = w
    /\ height = ht
    /\ dc = dc0
    /\ rst = rst0
    /\ op = [name |-> "new", args |-> <<>>]
    /\ result = "ok"
    /\ log = <<>>
    /\ prev = [name |-> "none", result |-> "ok"]

\* The collaborators at the start of a call whose failAt-th bus write fails,
\* in a build with (checked) or without overflow checks.
begin(failAt, checked) ==
    [dc |-> dc, rst |-> rst, log |-> <<>>, err |-> "none", nw |-> 0,
     failAt |-> failAt, checked |-> checked]

\* No call is in progress or unread: the next call can be made.
Ready == op.name \in {"new", "idle"}

\* A call is made when no call is in progress or unread (after new or
\* Idle) and runs to its return, which leaves the collaborators as h and the
\* call's events in log.  A panic ends the program: no call follows it.
returns(name, args, h) ==
    /\ Ready
    /\ dc' = h.dc
    /\ rst' = h.rst
    /\ log' = h.log
    /\ result' = (IF h.err = "none" THEN "ok" ELSE h.err)
    /\ op' = [name |-> name, args |-> args]
    /\ UNCHANGED prev

\* The caller has taken the result of the returned call and is free to make
\* the next one; prev remembers which call it was and how it ended.
Idle ==
    /\ op.name \notin {"new", "idle"}
    /\ result # "panic"
    /\ prev' = [name |-> op.name, result |-> result]
    /\ op' = [name |-> "idle", args |-> <<>>]
    /\ result' = "ok"
    /\ log' = <<>>
    /\ UNCHANGED <<rgb, inverted, dx, dy, width, height, dc, rst>>

\* The same, in the specifications that do not look back at the call before
\* the last one: prev stays as new left it.
Rest ==
    /\ op.name \notin {"new", "idle"}
    /\ result # "panic"
    /\ op' = [name |-> "idle", args |-> <<>>]
    /\ result' = "ok"
    /\ log' = <<>>
    /\ UNCHANGED <<rgb, inverted, dx, dy, width, height, dc, rst, prev>>

\* The inputs of the calls.
FailPoints == 0..MaxFail
ColorBases == {258, 65534}
ColorSteps == {0, 259}
Colors(n, base, step) == [i \in 1..n |-> (base + (i - 1) * step) % U16]
Coords == {0, 258, 65535}
\* The offsets given to set_offset: none, small ones, and the largest on
\* either axis.
OffsetPairs == {<<0, 0>>, <<1, 1>>, <<1, 65535>>, <<65535, 1>>}

Range(f) == {f[i] : i \in DOMAIN f}

\* The (opcode, parameters) pairs write_command is called with in lib.rs.
CommandSites ==
    UNION {{<<st[1], st[2]>> : st \in Range(init_steps(i, r))} : i \in BOOLEAN, r \in BOOLEAN}
    \cup {<<MADCTL, <<o>>>> : o \in Orientation}
    \cup {<<MADCTL, <<BitOr(o, 8, 8)>>>> : o \in Orientation}
    \cup {<<CASET, <<>>>>, <<RASET, <<>>>>, <<RAMWR, <<>>>>}

Call_write_command ==
    /\ Ready
    /\ \E site \in CommandSites, f \in 0..2 :
            /\ returns("write_command", site, write_command(begin(f, FALSE), site[1], site[2]))
            /\ UNCHANGED <<rgb, inverted, dx, dy, width, height>>

Call_hard_reset ==
    /\ returns("hard_reset", <<>>, hard_reset(begin(0, FALSE)))
    /\ UNCHANGED <<rgb, inverted, dx, dy, width, height>>

Call_init ==
    /\ Ready
    /\ \E f \in FailPoints :
            /\ returns("init", <<f>>, init(begin(f, FALSE), inverted, rgb))
            /\ UNCHANGED <<rgb, inverted, dx, dy, width, height>>

Call_set_orientation ==
    /\ Ready
    /\ \E o \in Orientation, f \in 0..2 :
            /\ returns("set_orientation", <<o, f>>, set_orientation(begin(f, FALSE), o, rgb))
            /\ UNCHANGED <<rgb, inverted, dx, dy, width, height>>

Call_set_offset ==
    /\ Ready
    /\ \E o \in OffsetPairs :
            /\ dx' = set_offset(o[1], o[2]).dx
            /\ dy' = set_offset(o[1], o[2]).dy
            /\ returns("set_offset", <<o[1], o[2]>>, begin(0, FALSE))
            /\ UNCHANGED <<rgb, inverted, width, height>>

Call_set_address_window ==
    /\ Ready
    /\ \E sx \in Coords, sy \in Coords, ex \in Coords, ey \in Coords,
           f \in 0..6, checked \in BOOLEAN :
            /\ returns("set_address_window", <<sx, sy, ex, ey>>,
                       set_address_window(begin(f, checked), sx, sy, ex, ey, dx, dy))
            /\ UNCHANGED <<rgb, inverted, dx, dy, width, height>>

Call_write_pixels ==
    /\ Ready
    /\ \E n \in 0..MaxPixels, base \in ColorBases, step \in ColorSteps :
        \E f \in 0..(n + 1) :
            /\ returns("write_pixels", Colors(n, base, step),
                       write_pixels(begin(f, FALSE), Colors(n, base, step)))
            /\ UNCHANGED <<rgb, inverted, dx, dy, width, height>>

Call_write_pixels_buffered ==
    /\ Ready
    /\ \E n \in 0..MaxPixels, base \in ColorBases, step \in ColorSteps, f \in 0..4 :
            /\ returns("write_pixels_buffered", Colors(n, base, step),
                       write_pixels_buffered(begin(f, FALSE), Colors(n, base, step)))
            /\ UNCHANGED <<rgb, inverted, dx, dy, width, height>>

\* The windows (sx, sy, ex, ey) given to set_pixels and set_pixels_buffered.
Windows == {<<c, 0, 258, c>> : c \in Coords}

Call_set_pixel ==
    /\ Ready
    /\ \E x \in Coords, y \in Coords, color \in ColorBases, f \in 0..8, checked \in BOOLEAN :
            /\ returns("set_pixel", <<x, y, color>>,
                       set_pixel(begin(f, checked), x, y, color, dx, dy))
            /\ UNCHANGED <<rgb, inverted, dx, dy, width, height>>

Call_set_pixels ==
    /\ Ready
    /\ \E win \in Windows, n \in 0..MaxPixels, checked \in BOOLEAN :
        \E f \in 0..(n + 7) :
            /\ returns("set_pixels", <<win, Colors(n, 258, 259)>>,
                       set_pixels(begin(f, checked), win[1], win[2], win[3], win[4],
                                  Colors(n, 258, 259), dx, dy))
            /\ UNCHANGED <<rgb, inverted, dx, dy, width, height>>

Call_set_pixels_buffered ==
    /\ Ready
    /\ \E win \in Windows, n \in 0..MaxPixels, f \in 0..10, checked \in BOOLEAN :
            /\ returns("set_pixels_buffered", <<win, Colors(n, 258, 259)>>,
                       set_pixels_buffered(begin(f, checked), win[1], win[2], win[3], win[4],
                                           Colors(n, 258, 259), dx, dy))
            /\ UNCHANGED <<rgb, inverted, dx, dy, width, height>>

\* The points given to draw_iter on a w x ht panel: the corners of the
\* panel and their neighbours outside it.
DrawPoints(w, ht) ==
    {<<-1, 0>>, <<0, -1>>, <<0, 0>>, <<w - 1, ht - 1>>, <<w, 0>>, <<0, ht>>}

\* The pixel lists given to draw_iter: the i-th pixel has its own colour.
PixelLists(w, ht) ==
    UNION {{[i \in 1..n |-> <<pts[i][1], pts[i][2], (258 + 259 * (i - 1)) % U16>>] :
                pts \in [1..n -> DrawPoints(w, ht)]} : n \in 0..MaxDrawn}

\* The corners of the rectangles given to fill_contiguous.
RectOrigins == -1..1

\* The widths (heights) of the rectangles given to fill_contiguous for the
\* largest panel width (height) n: none, one, the panel's and one more.
RectSizes(n) == {0, 1, n, n + 1}

Call_draw_iter ==
    /\ Ready
    /\ \E pixels \in PixelLists(width, height), checked \in BOOLEAN :
        \E f \in 0..(8 * Len(pixels)) :
            /\ returns("draw_iter", pixels,
                       draw_iter(begin(f, checked), pixels, width, height, dx, dy))
            /\ UNCHANGED <<rgb, inverted, dx, dy, width, height>>

Call_fill_contiguous ==
    /\ Ready
    /\ \E x \in RectOrigins, y \in RectOrigins,
           w \in RectSizes(MaxWidth), ht \in RectSizes(MaxHeight), more \in -1..1,
           f \in 0..10, checked \in BOOLEAN :
            LET area == Rectangle(x, y, w, ht)
                colors == Colors(Max(0, w * ht + more), 258, 259)
            IN /\ returns("fill_contiguous", <<area, colors>>,
                          fill_contiguous(begin(f, checked), area, colors,
                                          width, height, dx, dy))
               /\ UNCHANGED <<rgb, inverted, dx, dy, width, height>>

Call_clear ==
    /\ Ready
    /\ \E color \in ColorBases, f \in 0..10, checked \in BOOLEAN :
            /\ returns("clear", <<color>>,
                       clear(begin(f, checked), color, width, height, dx, dy))
            /\ UNCHANGED <<rgb, inverted, dx, dy, width, height>>

----------------------------------------------------------------------------
(* Specifications.                                                         *)

\* Any construction.
Init ==
    \E r \in BOOLEAN, i \in BOOLEAN, w \in 1..MaxWidth, ht \in 1..MaxHeight,
       dc0 \in Levels, rst0 \in Levels :
        new(r, i, w, ht, dc0, rst0)

\* The constructions of the drawing specifications: the flags and the panel
\* size have no part in the window and pixel-streaming methods.
InitDraw ==
    \E dc0 \in Levels : new(TRUE, FALSE, MaxWidth, MaxHeight, dc0, High)

\* The command protocol encoder alone.
NextCmd == Call_write_command \/ Idle
SpecCmd == Init /\ [][NextCmd]_vars

\* Initialization and orientation.
NextInit == Call_init \/ Call_set_orientation \/ Call_hard_reset \/ Idle
SpecInit == Init /\ [][NextInit]_vars

\* The address window manager.
NextWin == Call_set_offset \/ Call_set_address_window \/ Idle
SpecWin == InitDraw /\ [][NextWin]_vars

\* The stored configuration: flags, offset, and the calls that read them.
InitCfg ==
    \E r \in BOOLEAN, i \in BOOLEAN, dc0 \in Levels, rst0 \in Levels :
        new(r, i, MaxWidth, MaxHeight, dc0, rst0)
NextCfg ==
    \/ Call_set_offset
    \/ Call_set_orientation
    \/ Call_init
    \/ Call_set_address_window
    \/ Idle
SpecCfg == InitCfg /\ [][NextCfg]_vars

\* The constructions of the drawing-surface specifications: any panel size,
\* a panel without columns or rows included.
InitPanel ==
    \E w \in 0..MaxWidth, ht \in 0..MaxHeight, dc0 \in Levels :
        new(TRUE, FALSE, w, ht, dc0, High)

\* The drawing-surface adapter: point draw.
NextPoint == Call_draw_iter \/ Idle
SpecPoint == InitPanel /\ [][NextPoint]_vars

\* The drawing-surface adapter: rectangular fill, on the smallest panels and
\* on the largest.
InitFill ==
    \E w \in {0, 1, MaxWidth}, ht \in {0, 1, MaxHeight}, dc0 \in Levels :
        new(TRUE, FALSE, w, ht, dc0, High)
NextFill == Call_fill_contiguous \/ Idle
SpecFill == InitFill /\ [][NextFill]_vars

\* The drawing-surface adapter: clear.
NextClear == Call_clear \/ Call_set_offset \/ Idle
SpecClear == InitPanel /\ [][NextClear]_vars

\* The pixel stream writer.
NextPix == Call_write_pixels \/ Call_write_pixels_buffered \/ Idle
SpecPix == InitDraw /\ [][NextPix]_vars

\* The two streaming paths and the adapter operations, under any offset.
NextStream ==
    \/ Call_set_offset
    \/ Call_write_pixels
    \/ Call_write_pixels_buffered
    \/ Call_draw_iter
    \/ Call_fill_contiguous
    \/ Call_clear
    \/ Rest
SpecStream == InitFill /\ [][NextStream]_vars

\* The offset and the calls that set a window.
NextRange ==
    \/ Call_set_offset
    \/ Call_set_address_window
    \/ Call_set_pixel
    \/ Call_set_pixels
    \/ Call_set_pixels_buffered
    \/ Call_draw_iter
    \/ Call_fill_contiguous
    \/ Call_clear
    \/ Rest
SpecRange == InitFill /\ [][NextRange]_vars

\* The calls that transfer pixels to a window, under any offset.
NextTransfer ==
    \/ Call_set_offset
    \/ Call_set_pixel
    \/ Call_set_pixels
    \/ Call_set_pixels_buffered
    \/ Call_draw_iter
    \/ Call_fill_contiguous
    \/ Call_clear
    \/ Rest
SpecTransfer == InitFill /\ [][NextTransfer]_vars

\* The whole public interface: any flags and pin levels at construction on
\* the largest panel, and the panels without columns or without rows.
InitDriver ==
    \/ \E r \in BOOLEAN, i \in BOOLEAN, dc0 \in Levels, rst0 \in Levels :
            new(r, i, MaxWidth, MaxHeight, dc0, rst0)
    \/ \E size \in {<<0, MaxHeight>>, <<MaxWidth, 0>>} :
            new(FALSE, TRUE, size[1], size[2], Low, Low)
NextDriver ==
    \/ Call_init
    \/ Call_set_offset
    \/ Call_hard_reset
    \/ Call_set_orientation
    \/ Call_set_address_window
    \/ Call_set_pixel
    \/ Call_write_pixels
    \/ Call_write_pixels_buffered
    \/ Call_set_pixels
    \/ Call_set_pixels_buffered
    \/ Call_draw_iter
    \/ Call_fill_contiguous
    \/ Call_clear
    \/ Rest
SpecDriver == InitDriver /\ [][NextDriver]_vars

----------------------------------------------------------------------------
(* What a log shows.                                                       *)

\* A successful bus write of `bytes` made while dc was at `level`.
W(level, bytes) == Ev("write", level, bytes, TRUE)

IsWrite(e) == e.ev = "write"

\* The bus writes of a log, in order.
Writes(l) == SelectSeq(l, IsWrite)

\* The bus writes after the first one (the opcode of a pixel-streaming call).
DataWrites(l) == Tail(Writes(l))

\* The bytes of a sequence of bus writes, concatenated.
RECURSIVE Bytes(_)
Bytes(ws) == IF ws = <<>> THEN <<>> ELSE Head(ws).bytes \o Bytes(Tail(ws))

\* The big-endian bytes of a sequence of 16-bit words: for each word its
\* high byte, then its low byte.
RECURSIVE BigEndian(_)
BigEndian(ws) ==
    IF ws = <<>> THEN <<>>
    ELSE <<Head(ws) \div 256, Head(ws) % 256>> \o BigEndian(Tail(ws))

Returned(name, how) == op.name = name /\ result = how

----------------------------------------------------------------------------
(* C1: a write_command(opcode, params) that succeeds sets dc low and makes *)
(* one bus write of the single opcode byte; with no params nothing else    *)
(* happens and dc is low at the return; with params dc is then set high    *)
(* and the params are written in one write, in order, right after.         *)
C1_CommandFraming ==
    Returned("write_command", "ok") =>
        LET opcode == op.args[1]
            params == op.args[2]
        IN IF params = <<>>
           THEN /\ log = <<Ev("dc", Low, <<>>, TRUE), W(Low, <<opcode>>)>>
                /\ dc = Low
           ELSE /\ log = <<Ev("dc", Low, <<>>, TRUE), W(Low, <<opcode>>),
                           Ev("dc", High, <<>>, TRUE), W(High, params)>>
                /\ dc = High

C1_Witness ==
    /\ Returned("write_command", "ok")
    /\ op.args = <<FRMCTR3, <<1, 44, 45, 1, 44, 45>>>>
    /\ prev.name = "write_command"

(* C2 as claimed: buffered streaming of N colours makes, after the RAMWR   *)
(* opcode, exactly ceil(N/16) bus writes, the last of (N mod 16)*2 bytes,  *)
(* or of 32 bytes when N mod 16 = 0 and N > 0.                             *)
C2_CeilWrites ==
    Returned("write_pixels_buffered", "ok") =>
        LET n == Len(op.args)
            ws == DataWrites(log)
        IN /\ Len(ws) = (n + 15) \div 16
           /\ n > 0 => Len(ws[Len(ws)].bytes) = (IF n % 16 = 0 THEN 32 ELSE (n % 16) * 2)

(* C2 as amended: the call makes, after the RAMWR opcode, exactly          *)
(* floor(N/16) + 1 bus writes: floor(N/16) of 32 bytes, then a last one of *)
(* (N mod 16)*2 bytes, which is empty when N mod 16 = 0.                   *)
C2_FloorPlusOneWrites ==
    Returned("write_pixels_buffered", "ok") =>
        LET n == Len(op.args)
            ws == DataWrites(log)
        IN /\ Len(ws) = (n \div 16) + 1
           /\ \A j \in 1..(n \div 16) : Len(ws[j].bytes) = 32
           /\ Len(ws[Len(ws)].bytes) = (n % 16) * 2

C2_Witness ==
    /\ Returned("write_pixels_buffered", "ok")
    /\ Len(op.args) = 32
    /\ Len(DataWrites(log)) = 3

(* C3: the buffered writer writes the whole 32-byte buffer exactly when    *)
(* the 16th pixel since the last flush has been added (after k pixels it   *)
(* has made floor(k/16) writes and holds (k mod 16) pixels), each such     *)
(* write carrying those 16 pixels; one final flush ends the sequence and   *)
(* carries only the pixels added since the last full flush, so it is an    *)
(* empty write when no pixel was written.                                  *)
C3_FlushSemantics ==
    Returned("write_pixels_buffered", "ok") =>
        LET words == op.args
            n == Len(words)
            full == n \div 16
            ws == DataWrites(log)
            s0 == [buffer |-> zeroed(BufferLen), index |-> 0, h |-> begin(0, FALSE)]
            after(k) == buffered_loop(s0, SubSeq(words, 1, k))
        IN /\ \A k \in 0..n : /\ after(k).h.nw = k \div 16
                              /\ after(k).index = 2 * (k % 16)
           /\ \A j \in 1..full :
                  ws[j] = W(High, BigEndian(SubSeq(words, 16 * (j - 1) + 1, 16 * j)))
           /\ Len(ws) = full + 1
           /\ ws[full + 1] = W(High, BigEndian(SubSeq(words, 16 * full + 1, n)))
           /\ n = 0 => ws = <<W(High, <<>>)>>

C3_Witness ==
    /\ Returned("write_pixels_buffered", "ok")
    /\ Len(op.args) = 33
    /\ op.args[1] # op.args[17]
    /\ Len(DataWrites(log)[3].bytes) = 2

(* C4: for every colour sequence the unbuffered path (one 2-byte write per *)
(* colour) and the buffered path transmit after the RAMWR opcode the same  *)
(* data bytes: the big-endian encoding of the colours in input order,      *)
(* nothing lost, repeated, reordered or left over from an earlier fill.    *)
C4_SameByteStream ==
    /\ Returned("write_pixels", "ok") =>
           /\ Bytes(DataWrites(log)) = BigEndian(op.args)
           /\ Len(DataWrites(log)) = Len(op.args)
           /\ Bytes(DataWrites(write_pixels_buffered(begin(0, FALSE), op.args).log))
                  = Bytes(DataWrites(log))
    /\ Returned("write_pixels_buffered", "ok") =>
           /\ Bytes(DataWrites(log)) = BigEndian(op.args)
           /\ Bytes(DataWrites(write_pixels(begin(0, FALSE), op.args).log))
                  = Bytes(DataWrites(log))
    /\ op.name \in {"write_pixels", "write_pixels_buffered"} /\ result = "ok" =>
           /\ Head(Writes(log)) = W(Low, <<RAMWR>>)
           /\ \A i \in 1..Len(DataWrites(log)) : DataWrites(log)[i].val = High

C4_Witness ==
    /\ Returned("write_pixels_buffered", "ok")
    /\ Len(op.args) = 19
    /\ op.args[1] = 258
    /\ op.args[2] = 517
    /\ prev.name = "write_pixels"

\* The bus writes of a window-set for the four words given.
WindowWrites(c1, c2, r1, r2) ==
    << W(Low, <<CASET>>),
       W(High, <<c1 \div 256, c1 % 256>>), W(High, <<c2 \div 256, c2 % 256>>),
       W(Low, <<RASET>>),
       W(High, <<r1 \div 256, r1 % 256>>), W(High, <<r2 \div 256, r2 % 256>>) >>

(* C5 as claimed: a set_address_window(sx, sy, ex, ey) with the offset     *)
(* (dx, dy) transmits the CASET opcode (dc low), the words sx+dx and ex+dx *)
(* (dc high), the RASET opcode (dc low), the words sy+dy and ey+dy (dc     *)
(* high), each word as two bytes, the high byte first.                     *)
C5_WindowWords ==
    Returned("set_address_window", "ok") =>
        LET a == op.args
        IN Writes(log) = WindowWrites(a[1] + dx, a[3] + dx, a[2] + dy, a[4] + dy)

(* C5 as amended: the same, for a call that returns success with none of   *)
(* the four sums above 65535; the sums are 16-bit additions and the code   *)
(* validates nothing.                                                      *)
C5_WindowWordsInRange ==
    Returned("set_address_window", "ok") =>
        LET a == op.args
        IN (a[1] + dx <= 65535 /\ a[3] + dx <= 65535
            /\ a[2] + dy <= 65535 /\ a[4] + dy <= 65535) =>
               /\ Writes(log) = WindowWrites(a[1] + dx, a[3] + dx, a[2] + dy, a[4] + dy)
               /\ dc = High

\* A window under a non-zero offset with its four sums in range: 0 + 1,
\* 258 + 1, 0 + 65535 and 0 + 65535.
C5_Witness ==
    /\ Returned("set_address_window", "ok")
    /\ op.args = <<0, 0, 258, 0>>
    /\ dx = 1
    /\ dy = 65535
    /\ op.args[1] + dx <= 65535 /\ op.args[3] + dx <= 65535
    /\ op.args[2] + dy <= 65535 /\ op.args[4] + dy <= 65535
    /\ Writes(log)[2].bytes = <<0, 1>>
    /\ Writes(log)[3].bytes = <<1, 3>>
    /\ Writes(log)[5].bytes = <<255, 255>>
    /\ Writes(log)[6].bytes = <<255, 255>>

\* What init shows of its order: the reset pin changes, the delays and the
\* opcodes (the bytes written with dc low), without the parameter writes.
Step(e) == e.ev \in {"rst", "delay"} \/ (e.ev = "write" /\ e.val = Low)
StepOf(e) == IF e.ev = "write" THEN <<"cmd", e.bytes>> ELSE <<e.ev, e.val>>
StepsOf(l) == [i \in 1..Len(SelectSeq(l, Step)) |-> StepOf(SelectSeq(l, Step)[i])]

\* The hard reset: reset high, 10 ms, low, 10 ms, high.
ResetEvents ==
    << Ev("rst", High, <<>>, TRUE), Ev("delay", 10, <<>>, TRUE),
       Ev("rst", Low, <<>>, TRUE), Ev("delay", 10, <<>>, TRUE),
       Ev("rst", High, <<>>, TRUE) >>

(* C6: a successful init shows exactly: reset high, 10 ms, reset low,      *)
(* 10 ms, reset high; software reset, 200 ms; sleep-out, 200 ms; the three *)
(* frame-rate controls; inversion control; the five power controls; VCOM   *)
(* control; inversion on or off; memory-access control; colour mode;       *)
(* display on, 200 ms.  The software reset, sleep-out and display-on have  *)
(* no parameters, no bus write precedes the last reset-high, and the waits *)
(* are three of 200 ms and two of 10 ms.                                   *)
C6_InitOrder ==
    Returned("init", "ok") =>
        /\ StepsOf(log) =
             << <<"rst", High>>, <<"delay", 10>>, <<"rst", Low>>, <<"delay", 10>>,
                <<"rst", High>>,
                <<"cmd", <<SWRESET>>>>, <<"delay", 200>>,
                <<"cmd", <<SLPOUT>>>>, <<"delay", 200>>,
                <<"cmd", <<FRMCTR1>>>>, <<"cmd", <<FRMCTR2>>>>, <<"cmd", <<FRMCTR3>>>>,
                <<"cmd", <<INVCTR>>>>,
                <<"cmd", <<PWCTR1>>>>, <<"cmd", <<PWCTR2>>>>, <<"cmd", <<PWCTR3>>>>,
                <<"cmd", <<PWCTR4>>>>, <<"cmd", <<PWCTR5>>>>,
                <<"cmd", <<VMCTR1>>>>,
                <<"cmd", <<IF inverted THEN INVON ELSE INVOFF>>>>,
                <<"cmd", <<MADCTL>>>>,
                <<"cmd", <<COLMOD>>>>,
                <<"cmd", <<DISPON>>>>, <<"delay", 200>> >>
        /\ SubSeq(log, 1, 5) = ResetEvents
        /\ \A i \in 1..Len(log) :
               (log[i].ev = "write" /\ log[i].bytes \in {<<SWRESET>>, <<SLPOUT>>, <<DISPON>>}
                /\ log[i].val = Low)
                   => (i < Len(log) /\ log[i + 1] = Ev("delay", 200, <<>>, TRUE))
        /\ Cardinality({i \in 1..Len(log) : log[i] = Ev("delay", 200, <<>>, TRUE)}) = 3
        /\ Cardinality({i \in 1..Len(log) : log[i] = Ev("delay", 10, <<>>, TRUE)}) = 2
        /\ Cardinality({i \in 1..Len(log) : log[i].ev = "delay"}) = 5
        /\ rst = High

C6_Witness ==
    /\ Returned("init", "ok")
    /\ Len(log) = 64
    /\ inverted
    /\ prev.name = "hard_reset"

\* The position in a log of the write of opcode c with dc low (0: none).
CmdAt(l, c) ==
    IF \E i \in 1..Len(l) : l[i] = W(Low, <<c>>)
    THEN CHOOSE i \in 1..Len(l) : l[i] = W(Low, <<c>>)
    ELSE 0

(* C7: in init the inversion command is inversion-on iff inverted, and     *)
(* inversion-off otherwise, with no parameters; the memory-access-control  *)
(* parameter is 0x00 when rgb and 0x08 when not, with no orientation bits, *)
(* also when set_orientation was called before this init.                  *)
C7_InitFlags ==
    Returned("init", "ok") =>
        LET on == CmdAt(log, INVON)
            off == CmdAt(log, INVOFF)
            inv == IF inverted THEN on ELSE off
            mad == CmdAt(log, MADCTL)
        IN /\ inverted => (on > 0 /\ off = 0)
           /\ ~inverted => (off > 0 /\ on = 0)
           /\ mad = inv + 2
           /\ log[inv + 1] = Ev("dc", Low, <<>>, TRUE)
           /\ log[mad + 1] = Ev("dc", High, <<>>, TRUE)
           /\ log[mad + 2] = W(High, <<IF rgb THEN 0 ELSE 8>>)
           /\ log[mad + 3] = Ev("dc", Low, <<>>, TRUE)

C7_Witness ==
    /\ Returned("init", "ok")
    /\ prev = [name |-> "set_orientation", result |-> "ok"]
    /\ ~rgb
    /\ inverted

(* C8: a bus write that fails in init is returned as the error and is the  *)
(* last thing the call does: no bus write, pin change or delay follows it, *)
(* it is attempted once, and what was sent before it stays as sent (the    *)
(* events before it are those of an init without failure).  Every call of  *)
(* init, also one that follows a failed init, starts with the whole hard   *)
(* reset before its first bus write.                                       *)
C8_InitFailure ==
    op.name = "init" =>
        LET full == init(begin(0, FALSE), inverted, rgb).log
            failed == {i \in 1..Len(log) : ~log[i].ok}
        IN /\ Len(log) >= 5
           /\ SubSeq(log, 1, 5) = ResetEvents
           /\ (failed # {}) <=> (result = "bus")
           /\ result = "ok" => log = full
           /\ result = "bus" =>
                  /\ failed = {Len(log)}
                  /\ log[Len(log)].ev = "write"
                  /\ Len(log) <= Len(full)
                  /\ SubSeq(log, 1, Len(log) - 1) = SubSeq(full, 1, Len(log) - 1)
                  /\ log[Len(log)] = [full[Len(log)] EXCEPT !.ok = FALSE]

C8_Witness ==
    /\ Returned("init", "bus")
    /\ prev = [name |-> "init", result |-> "bus"]
    /\ Len(Writes(log)) = 8
    /\ log[Len(log)].bytes = <<1, 44, 45, 1, 44, 45>>

(* C9 as claimed: whenever write_command fails with a bus error, be it on  *)
(* the opcode byte or on the parameter bytes, dc is high at the return.    *)
C9_FailureLeavesData ==
    Returned("write_command", "bus") => dc = High

(* C9 as amended: when write_command fails on the parameter bytes dc is    *)
(* high (data) at the return; when it fails on the opcode byte dc is low   *)
(* (command): the line is left as the call last set it.                    *)
C9_FailureLeavesLastSet ==
    Returned("write_command", "bus") =>
        /\ ~log[Len(log)].ok
        /\ log[Len(log)].val = dc
        /\ Len(Writes(log)) = 2 => (dc = High /\ log[Len(log)].bytes = op.args[2])
        /\ Len(Writes(log)) = 1 => (dc = Low /\ log[Len(log)].bytes = <<op.args[1]>>)
        /\ Len(Writes(log)) \in {1, 2}

C9_Witness ==
    /\ Returned("write_command", "bus")
    /\ Len(Writes(log)) = 2
    /\ op.args[1] = PWCTR1
    /\ prev = [name |-> "write_command", result |-> "bus"]

(* C10: for each of the four orientations set_orientation sends the        *)
(* memory-access-control command with exactly one parameter byte: the base *)
(* byte (0x00, 0x60, 0xC0, 0xA0) when rgb, the base byte OR 0x08 when not. *)
C10_OrientationByte ==
    Returned("set_orientation", "ok") =>
        LET o == op.args[1]
            base == CASE o = Portrait -> 0
                      [] o = Landscape -> 96
                      [] o = PortraitSwapped -> 192
                      [] o = LandscapeSwapped -> 160
        IN Writes(log) = << W(Low, <<MADCTL>>), W(High, <<IF rgb THEN base ELSE base + 8>>) >>

C10_Witness ==
    /\ Returned("set_orientation", "ok")
    /\ op.args[1] = LandscapeSwapped
    /\ ~rgb
    /\ Writes(log)[2].bytes = <<168>>

(* C11: set_orientation does nothing but send its one command: a call     *)
(* shows only mode-select changes and bus writes (no reset-pin change, no  *)
(* delay, no initialization command), when it succeeds exactly one opcode  *)
(* write and one 1-byte parameter write, and it leaves rgb, inverted, dx,  *)
(* dy, width, height and the reset pin as they were.                       *)
C11_OrientationOnly ==
    [][op'.name = "set_orientation" /\ op.name # "set_orientation" =>
          /\ <<rgb', inverted', dx', dy', width', height'>>
                 = <<rgb, inverted, dx, dy, width, height>>
          /\ rst' = rst
          /\ \A i \in 1..Len(log') : log'[i].ev \in {"dc", "write"}
          /\ Len(Writes(log')) <= 2
          /\ Writes(log')[1].bytes = <<MADCTL>>
          /\ result' = "ok" =>
                 /\ Len(log') = 4
                 /\ Len(Writes(log')) = 2
                 /\ Len(Writes(log')[1].bytes) = 1
                 /\ Len(Writes(log')[2].bytes) = 1]_vars

C11_Witness ==
    /\ Returned("set_orientation", "ok")
    /\ prev = [name |-> "set_offset", result |-> "ok"]
    /\ dx = 65535
    /\ dy = 1
    /\ rst = Low
    /\ ~rgb
    /\ inverted

(* C20: the offset is (0, 0) on construction; set_offset(dx, dy) stores    *)
(* dx and dy, changes nothing else and causes no bus write, pin change or  *)
(* delay; no other call (init and set_orientation included) changes the    *)
(* offset; and every window-set transmits its coordinates translated by    *)
(* the offset stored last.                                                 *)
C20_OffsetFrame ==
    [][/\ op.name = "new" => (dx = 0 /\ dy = 0)
       /\ op'.name = "set_offset" /\ op.name # "set_offset" =>
              /\ dx' = op'.args[1]
              /\ dy' = op'.args[2]
              /\ log' = <<>>
              /\ result' = "ok"
              /\ <<rgb', inverted', width', height', dc', rst'>>
                     = <<rgb, inverted, width, height, dc, rst>>
       /\ op'.name # "set_offset" => (dx' = dx /\ dy' = dy)
       /\ op'.name = "set_address_window" /\ op.name # "set_address_window"
          /\ result' = "ok" =>
              LET a == op'.args
              IN Writes(log') = WindowWrites((a[1] + dx) % 65536, (a[3] + dx) % 65536,
                                             (a[2] + dy) % 65536, (a[4] + dy) % 65536)]_vars

C20_Witness ==
    /\ Returned("set_address_window", "ok")
    /\ prev = [name |-> "init", result |-> "ok"]
    /\ dx = 1
    /\ dy = 65535
    /\ op.args = <<258, 0, 0, 0>>
    /\ Writes(log)[2].bytes = <<1, 3>>
    /\ Writes(log)[5].bytes = <<255, 255>>

\* The buffered transfer of a colour sequence: the RAMWR opcode, a 32-byte
\* write for every 16 colours, and a last write with the rest.
BufferedWrites(colors) ==
    LET n == Len(colors)
    IN <<W(Low, <<RAMWR>>)>>
       \o [j \in 1..(n \div 16) |-> W(High, BigEndian(SubSeq(colors, 16 * (j - 1) + 1, 16 * j)))]
       \o <<W(High, BigEndian(SubSeq(colors, 16 * (n \div 16) + 1, n)))>>

\* A point of the panel [0, width) x [0, height).
OnPanel(px, py) == 0 <= px /\ px < width /\ 0 <= py /\ py < height

\* The i-th point of a rectangle in its point order.
PointOf(area, i) == <<area.x + ((i - 1) % area.w), area.y + ((i - 1) \div area.w)>>

\* The colours of a fill whose point lies on the panel, from the i-th on.
RECURSIVE VisibleColors(_, _, _)
VisibleColors(area, colors, i) ==
    IF i > Len(colors) \/ i > area.w * area.h THEN <<>>
    ELSE (IF OnPanel(PointOf(area, i)[1], PointOf(area, i)[2]) THEN <<colors[i]>> ELSE <<>>)
         \o VisibleColors(area, colors, i + 1)

\* Some point of the rectangle lies on the panel.
Visible(area) ==
    \E i \in 1..(area.w * area.h) : OnPanel(PointOf(area, i)[1], PointOf(area, i)[2])

(* C12: a fill_contiguous of a rectangle that is partly (or wholly) on the *)
(* panel sets the window to the part of the rectangle on the panel and     *)
(* buffered-streams exactly the colours whose point (the i-th colour       *)
(* belongs to the i-th point of the rectangle) lies in that part, in input *)
(* order; the colours of the clipped points are not transmitted.           *)
C12_FillClipped ==
    (Returned("fill_contiguous", "ok") /\ Visible(op.args[1])) =>
        LET area == op.args[1]
            left == IF area.x > 0 THEN area.x ELSE 0
            top == IF area.y > 0 THEN area.y ELSE 0
            right == IF area.x + area.w < width THEN area.x + area.w - 1 ELSE width - 1
            bottom == IF area.y + area.h < height THEN area.y + area.h - 1 ELSE height - 1
        IN Writes(log) = WindowWrites(left + dx, right + dx, top + dy, bottom + dy)
                         \o BufferedWrites(VisibleColors(area, op.args[2], 1))

C12_Witness ==
    /\ Returned("fill_contiguous", "ok")
    /\ op.args[1] = Rectangle(-1, -1, MaxWidth + 1, MaxHeight + 1)
    /\ Len(op.args[2]) = (MaxWidth + 1) * (MaxHeight + 1)
    /\ width = MaxWidth
    /\ height = MaxHeight
    /\ Len(Writes(log)) = 8 + (width * height) \div 16
    /\ Len(Bytes(Writes(log))) = 11 + 2 * width * height

(* C13: a fill_contiguous whose rectangle lies fully outside the panel, or  *)
(* is empty, writes nothing to the bus, changes no pin and succeeds. The   *)
(* code does not do so for an empty rectangle with one dimension zero and  *)
(* its corner on the panel: Rectangle::intersection returns that rectangle *)
(* unchanged, its size is not Size::zero(), and `size.width - 1` (or       *)
(* height) underflows.                                                     *)
C13_NothingVisibleNoOp ==
    (op.name = "fill_contiguous" /\ ~Visible(op.args[1])) =>
        (log = <<>> /\ result = "ok")

\* The bus writes of a point-by-point draw: for every pixel on the panel,
\* in order, its one-pixel window, RAMWR and its colour word.
RECURSIVE PointWrites(_)
PointWrites(pixels) ==
    IF pixels = <<>> THEN <<>>
    ELSE LET p == Head(pixels)
         IN (IF OnPanel(p[1], p[2])
             THEN WindowWrites(p[1] + dx, p[1] + dx, p[2] + dy, p[2] + dy)
                  \o <<W(Low, <<RAMWR>>), W(High, <<p[3] \div 256, p[3] % 256>>)>>
             ELSE <<>>)
            \o PointWrites(Tail(pixels))

(* C14: draw_iter sends, for every pixel with 0 <= x < width and           *)
(* 0 <= y < height, in iteration order, the window of the one pixel (x, y), *)
(* RAMWR and that pixel's colour word; a pixel outside the panel causes no *)
(* bus traffic and no error: the call fails only when a bus write fails.   *)
C14_DrawPoints ==
    op.name = "draw_iter" =>
        /\ result = "ok" => Writes(log) = PointWrites(op.args)
        /\ result = "ok" <=> \A i \in 1..Len(log) : log[i].ok
        /\ \A i \in 1..Len(log) : log[i].ev \in {"dc", "write"}

C14_Witness ==
    /\ Returned("draw_iter", "ok")
    /\ width = MaxWidth
    /\ height = MaxHeight
    /\ Len(op.args) = 2
    /\ op.args[1][1] = width /\ op.args[1][2] = 0
    /\ op.args[2][1] = width - 1 /\ op.args[2][2] = height - 1
    /\ Len(Writes(log)) = 8

\* The bus writes of a clear with the given colour on a width x height panel.
ClearWrites(color) ==
    WindowWrites(dx, width - 1 + dx, dy, height - 1 + dy)
    \o BufferedWrites([i \in 1..(width * height) |-> color])

(* C15 as claimed: for every configured width and height, a clear(color)   *)
(* that succeeds sets the window (0, 0)-(width-1, height-1) and streams    *)
(* exactly width x height repetitions of the colour word through the       *)
(* buffered path. With width or height 0 the code computes                 *)
(* `self.width as u16 - 1`, which panics or wraps to 65535.                *)
C15_ClearWholePanel ==
    op.name = "clear" =>
        /\ result # "panic"
        /\ result = "ok" => Writes(log) = ClearWrites(op.args[1])

(* C15, amended: the same for every width and height from 1 to 65535, when *)
(* the offset keeps dx + width - 1 and dy + height - 1 within 65535.       *)
C15_ClearNonEmptyPanel ==
    (/\ op.name = "clear"
     /\ width >= 1 /\ height >= 1
     /\ dx + width - 1 < U16 /\ dy + height - 1 < U16) =>
        /\ result # "panic"
        /\ result = "ok" => Writes(log) = ClearWrites(op.args[1])

C15_Witness ==
    /\ Returned("clear", "ok")
    /\ dx = 1 /\ dy = 1
    /\ width = MaxWidth
    /\ height = MaxHeight
    /\ width * height > 16
    /\ Len(Writes(log)) = 8 + (width * height) \div 16
    /\ Len(Bytes(Writes(log))) = 11 + 2 * width * height

\* The pixel-streaming calls: the two streaming paths and the adapter
\* operations.
StreamingOps ==
    {"write_pixels", "write_pixels_buffered", "draw_iter", "fill_contiguous", "clear"}

\* The events of the call of op on a bus that never fails.
FullLog ==
    LET h == begin(0, FALSE)
        a == op.args
    IN CASE op.name = "write_pixels" -> write_pixels(h, a).log
         [] op.name = "write_pixels_buffered" -> write_pixels_buffered(h, a).log
         [] op.name = "draw_iter" -> draw_iter(h, a, width, height, dx, dy).log
         [] op.name = "fill_contiguous" ->
                fill_contiguous(h, a[1], a[2], width, height, dx, dy).log
         [] op.name = "clear" -> clear(h, a[1], width, height, dx, dy).log

(* C16: in both streaming paths and in every adapter operation, the first  *)
(* bus write that fails ends the call with the error at once: it is the    *)
(* last event of the call, so no later bus write is made and the remaining *)
(* pixels are not transmitted, and what was transmitted before it is a     *)
(* prefix of what the same call transmits when no write fails.             *)
C16_FailureAborts ==
    op.name \in StreamingOps =>
        LET failed == {i \in 1..Len(log) : ~log[i].ok}
            n == Len(log)
        IN /\ result = "bus" <=> failed # {}
           /\ failed # {} =>
                /\ failed = {n}
                /\ log[n].ev = "write"
                /\ n <= Len(FullLog)
                /\ SubSeq(log, 1, n - 1) = SubSeq(FullLog, 1, n - 1)
                /\ log[n] = [FullLog[n] EXCEPT !.ok = FALSE]

C16_Witness ==
    /\ Returned("fill_contiguous", "bus")
    /\ Len(Writes(log)) = 8
    /\ Len(Writes(log)[8].bytes) = 32
    /\ ~Writes(log)[8].ok
    /\ Len(Writes(FullLog)) = 9

\* The calls that set a window.
WindowOps ==
    {"set_address_window", "set_pixel", "set_pixels", "set_pixels_buffered",
     "draw_iter", "fill_contiguous", "clear"}

\* The part of a rectangle on the panel, as a window <<sx, sy, ex, ey>>.
ClippedWindow(area) ==
    << IF area.x > 0 THEN area.x ELSE 0,
       IF area.y > 0 THEN area.y ELSE 0,
       IF area.x + area.w < width THEN area.x + area.w - 1 ELSE width - 1,
       IF area.y + area.h < height THEN area.y + area.h - 1 ELSE height - 1 >>

\* The call of op requests windows by coordinates: every window-setting
\* call does, except a fill_contiguous of a rectangle with no point on the
\* panel and a clear of a panel without columns or rows.
RequestsWindows ==
    /\ op.name \in WindowOps
    /\ op.name = "fill_contiguous" => Visible(op.args[1])
    /\ op.name = "clear" => (width >= 1 /\ height >= 1)

\* The windows <<sx, sy, ex, ey>> requested by the pixels of a draw_iter.
RECURSIVE PointWindows(_)
PointWindows(pixels) ==
    IF pixels = <<>> THEN <<>>
    ELSE (IF OnPanel(Head(pixels)[1], Head(pixels)[2])
          THEN <<<<Head(pixels)[1], Head(pixels)[2], Head(pixels)[1], Head(pixels)[2]>>>>
          ELSE <<>>)
         \o PointWindows(Tail(pixels))

\* The windows <<sx, sy, ex, ey>> the call of op requests, in order.
RequestedWindows ==
    CASE op.name = "set_address_window" -> <<op.args>>
      [] op.name = "set_pixel" -> <<<<op.args[1], op.args[2], op.args[1], op.args[2]>>>>
      [] op.name \in {"set_pixels", "set_pixels_buffered"} -> <<op.args[1]>>
      [] op.name = "draw_iter" -> PointWindows(op.args)
      [] op.name = "fill_contiguous" -> <<ClippedWindow(op.args[1])>>
      [] op.name = "clear" -> <<<<0, 0, width - 1, height - 1>>>>

\* The true sums of the requested windows, in the order of their
\* transmission: sx+dx, ex+dx, sy+dy, ey+dy.
RECURSIVE TrueSums(_)
TrueSums(wins) ==
    IF wins = <<>> THEN <<>>
    ELSE LET a == Head(wins)
         IN <<a[1] + dx, a[3] + dx, a[2] + dy, a[4] + dy>> \o TrueSums(Tail(wins))

\* The data writes of ws, from the i-th on, that follow a CASET or RASET
\* opcode (cmd is the last opcode before the i-th write): the coordinate
\* words, each as the bytes written.
RECURSIVE CoordWordsFrom(_, _, _)
CoordWordsFrom(ws, i, cmd) ==
    IF i > Len(ws) THEN <<>>
    ELSE IF ws[i].val = Low THEN CoordWordsFrom(ws, i + 1, ws[i].bytes)
    ELSE (IF cmd \in {<<CASET>>, <<RASET>>} THEN <<ws[i].bytes>> ELSE <<>>)
         \o CoordWordsFrom(ws, i + 1, cmd)

CoordWords(l) == CoordWordsFrom(Writes(l), 1, <<>>)

(* C17 as claimed: after any sequence of set_offset and window-setting      *)
(* calls, dx plus every requested column coordinate and dy plus every      *)
(* requested row coordinate is within 0..65535, so no 16-bit addition      *)
(* overflows and every transmitted word is the true sum.                   *)
C17_SumsNeverOverflow ==
    RequestsWindows =>
        /\ \A i \in 1..Len(TrueSums(RequestedWindows)) :
                TrueSums(RequestedWindows)[i] < U16
        /\ result # "panic"
        /\ result = "ok" =>
                CoordWords(log) = [i \in 1..Len(TrueSums(RequestedWindows)) |->
                                        <<TrueSums(RequestedWindows)[i] \div 256,
                                          TrueSums(RequestedWindows)[i] % 256>>]

(* C17, amended: nothing keeps the sums in range (set_offset stores any     *)
(* pair, no window-setting call validates); in a window-setting call whose *)
(* sums are all within 0..65535 no addition overflows and every            *)
(* coordinate word transmitted is the true sum, high byte first.           *)
C17_InRangeSumsAreTrue ==
    (/\ RequestsWindows
     /\ \A i \in 1..Len(TrueSums(RequestedWindows)) :
            TrueSums(RequestedWindows)[i] < U16) =>
        LET sums == TrueSums(RequestedWindows)
            words == CoordWords(log)
        IN /\ result # "panic"
           /\ Len(words) <= Len(sums)
           /\ \A i \in 1..Len(words) : words[i] = <<sums[i] \div 256, sums[i] % 256>>
           /\ result = "ok" => Len(words) = Len(sums)

C17_Witness ==
    /\ Returned("draw_iter", "ok")
    /\ dx = 1
    /\ dy = 1
    /\ Len(op.args) = 2
    /\ CoordWords(log) = << <<0, width>>, <<0, width>>, <<0, height>>, <<0, height>>,
                            <<0, 1>>, <<0, 1>>, <<0, 1>>, <<0, 1>> >>

\* The calls that transfer pixels to a window.
TransferOps ==
    {"set_pixel", "set_pixels", "set_pixels_buffered", "draw_iter",
     "fill_contiguous", "clear"}

\* The bus writes ws, from the i-th on, keep the order of a transfer, where
\* cmd is the last opcode written before them (0: none) and k the number of
\* data writes since: CASET first and after every RAMWR, two 2-byte words
\* and then RASET, two 2-byte words and then RAMWR, and data only after an
\* opcode.
RECURSIVE TransferOrder(_, _, _, _)
TransferOrder(ws, i, cmd, k) ==
    IF i > Len(ws) THEN TRUE
    ELSE IF ws[i].val = Low
    THEN /\ Len(ws[i].bytes) = 1
         /\ cmd \in {0, RAMWR} => ws[i].bytes[1] = CASET
         /\ cmd = CASET => (ws[i].bytes[1] = RASET /\ k = 2)
         /\ cmd = RASET => (ws[i].bytes[1] = RAMWR /\ k = 2)
         /\ TransferOrder(ws, i + 1, ws[i].bytes[1], 0)
    ELSE /\ cmd # 0
         /\ cmd \in {CASET, RASET} => (k < 2 /\ Len(ws[i].bytes) = 2)
         /\ TransferOrder(ws, i + 1, cmd, k + 1)

\* The opcodes of a log: the bytes written with dc low.
IsCommand(e) == e.ev = "write" /\ e.val = Low
Commands(l) == SelectSeq(l, IsCommand)

(* C18: every call that transfers pixels (set_pixel, set_pixels,           *)
(* set_pixels_buffered, draw_iter, fill_contiguous, clear) writes, per     *)
(* transfer, CASET and its two words, RASET and its two words, RAMWR, and  *)
(* only then pixel data: no data other than the four window words comes    *)
(* between CASET and RAMWR, and no pixel data is written that does not     *)
(* follow the RAMWR of its transfer; a call that succeeds ends each of its *)
(* transfers with RAMWR and the data.                                      *)
C18_TransferOrder ==
    op.name \in TransferOps =>
        /\ TransferOrder(Writes(log), 1, 0, 0)
        /\ result = "ok" => Len(Commands(log)) % 3 = 0
        /\ (result = "ok" /\ op.name \in {"set_pixel", "set_pixels", "set_pixels_buffered"})
                => Len(Commands(log)) = 3

C18_Witness ==
    /\ Returned("draw_iter", "ok")
    /\ Len(Commands(log)) = 6
    /\ Len(Writes(log)) = 16
    /\ Commands(log)[3].bytes = <<RAMWR>>
    /\ Commands(log)[4].bytes = <<CASET>>

\* The opcodes the driver sends.
Opcodes ==
    {SWRESET, SLPOUT, INVOFF, INVON, DISPON, CASET, RASET, RAMWR, MADCTL, COLMOD,
     FRMCTR1, FRMCTR2, FRMCTR3, INVCTR, PWCTR1, PWCTR2, PWCTR3, PWCTR4, PWCTR5, VMCTR1}

(* C19: in every call of every sequence of public operations, a bus write  *)
(* made while dc is low carries exactly one byte, an opcode, and is the    *)
(* only write of its low period (it comes right after dc is set low, and   *)
(* the write after it, if any, is made with dc high): every parameter,     *)
(* coordinate and pixel byte is written while dc is high. No write relies  *)
(* on the level dc was left at by an earlier call.                         *)
C19_LowCarriesOneOpcode ==
    \A i \in 1..Len(log) :
        log[i].ev = "write" =>
            /\ i > 1
            /\ log[i].val = Low =>
                    /\ Len(log[i].bytes) = 1
                    /\ log[i].bytes[1] \in Opcodes
                    /\ log[i - 1] = Ev("dc", Low, <<>>, TRUE)
            /\ log[i - 1].ev = "write" => log[i].val = High
            /\ log[i].val \in {Low, High}

C19_Witness ==
    /\ Returned("init", "ok")
    /\ ~rgb
    /\ inverted
    /\ dx = 1
    /\ Len(Commands(log)) = 16
    /\ \E i \in 1..Len(log) : log[i] = W(Low, <<INVON>>)
    /\ \E i \in 1..Len(log) : log[i].ev = "write" /\ log[i].val = High /\ Len(log[i].bytes) = 6

====
